---- MODULE Spec2Model ----
(***************************************************************************)
(* Blogicum (ByAlexandrow/ISpread): the request handlers of blog/views.py  *)
(* over the Post / Comment / Category tables, with the visibility filter   *)
(* of blog/functions.py and the forms of blog/forms.py.                    *)
(*                                                                         *)
(* One action per view class.  Every action handles one whole request: it  *)
(* records the request, computes the response and applies the database     *)
(* writes of that request.                                                 *)
(***************************************************************************)
EXTENDS Integers, Sequences, FiniteSets

VARIABLES
    users,          \* rows of the User table, by primary key
    posts,          \* rows of the Post table
    comments,       \* rows of the Comment table
    categories,     \* rows of the Category table
    nextPostId,     \* auto-increment primary key of Post
    nextCommentId,  \* auto-increment primary key of Comment
    now,            \* django.utils.timezone.now()
    request,        \* the request handled last
    response        \* the response given to it

vars == <<users, posts, comments, categories, nextPostId, nextCommentId, now,
          request, response>>

data == <<users, posts, comments, categories, nextPostId, nextCommentId>>

----------------------------------------------------------------------------
(* Bounds of the model *)

MaxPosts == 1

MaxComments == 2

MaxTime == 5

(* Length of a calendar day in clock ticks (pub_date__date). *)
DayLen == 3

(* paginate_by of the three list views. *)
PageSize == 10

----------------------------------------------------------------------------
(* Principals and request inputs *)

(* Primary keys of the User table. *)
Users == {"u1", "u2"}

Anonymous == "anon"

Requesters == Users \cup {Anonymous}

Usernames == {"u1", "u2", "ghost"}

(* The page parameter of a list request; 1 when the request names none. *)
Pages == {1, 2}

Slugs == {"c1", "c2", "cx"}

Methods == {"GET", "POST"}

PostIds == 1..MaxPosts

CommentIds == 1..MaxComments

(* The posts the comment routes are exercised against, and the post ids    *)
(* requested there: the ids of these posts and one id that does not exist. *)
SeedPosts ==
    {[id |-> 1, author |-> "u1", title |-> "t", category |-> "c1",
      is_published |-> TRUE, pub_date |-> 1],
     [id |-> 2, author |-> "u2", title |-> "t", category |-> "c1",
      is_published |-> FALSE, pub_date |-> 1]}

SeedPostIds == {p.id : p \in SeedPosts}

MissingPostId == Cardinality(SeedPosts) + 1

(* Submitted form data.  A post form may carry an author field, which      *)
(* PostForm does not read; an empty title, text or username is a missing   *)
(* required field.                                                         *)
NoData ==
    [author |-> "", title |-> "", category |-> "",
     is_published |-> FALSE, pub_date |-> 0, text |-> "",
     username |-> "", first_name |-> "", last_name |-> "", email |-> ""]

PostPayload(author, title, category, is_published, pub_date) ==
    [NoData EXCEPT !.author = author, !.title = title,
                   !.category = category, !.is_published = is_published,
                   !.pub_date = pub_date]

(* The post payloads: a publicly visible post, an unpublished one, a       *)
(* future-dated one, one in the unpublished category, an invalid one.      *)
PostData ==
    {PostPayload("u2", "t", "c1", TRUE, 1),
     PostPayload("u1", "t", "c1", FALSE, 1),
     PostPayload("u1", "t", "c1", TRUE, 4),
     PostPayload("u2", "t", "c2", TRUE, 1),
     PostPayload("u1", "", "c1", TRUE, 1)}

CommentPayload(text) == [NoData EXCEPT !.text = text]

CommentData == {CommentPayload(""), CommentPayload("a"), CommentPayload("b")}

ProfilePayload(username, email) ==
    [NoData EXCEPT !.username = username, !.email = email]

(* The profile payloads: a new username with a new email (taken once a    *)
(* user has it), and an invalid one.                                       *)
ProfileData ==
    {ProfilePayload("ghost", "e"),
     ProfilePayload("", "e")}

----------------------------------------------------------------------------
(* Requests and responses *)

Req(route, method, user, post_id, comment_id, slug, username, d) ==
    [route |-> route, method |-> method, user |-> user, post_id |-> post_id,
     comment_id |-> comment_id, slug |-> slug, username |-> username,
     page |-> 0, data |-> d]

(* A GET of a list route, with its page parameter. *)
ListReq(route, user, slug, username, page) ==
    [Req(route, "GET", user, 0, 0, slug, username, NoData)
       EXCEPT !.page = page]

NotFound ==
    [status |-> "NotFound", view |-> "", post_id |-> 0, username |-> "",
     next |-> "", objects |-> <<>>]

Redirect(view, post_id, username) ==
    [status |-> "Redirect", view |-> view, post_id |-> post_id,
     username |-> username, next |-> "", objects |-> <<>>]

Render(template, objects) ==
    [status |-> "OK", view |-> template, post_id |-> 0, username |-> "",
     next |-> "", objects |-> objects]

(* LoginRequiredMixin: an unauthenticated requester is sent to the login   *)
(* page with the requested route as the return path.                       *)
is_authenticated(u) == u \in Users

RedirectToLogin(route) ==
    [status |-> "Redirect", view |-> "login", post_id |-> 0, username |-> "",
     next |-> route, objects |-> <<>>]

----------------------------------------------------------------------------
(* Queries *)

Date(t) == t \div DayLen

CategoryIsPublished(slug) ==
    \E c \in categories : c.slug = slug /\ c.is_published

(* functions.get_post: the filter of the index and category listings. *)
get_post(S) ==
    {p \in S : /\ p.is_published
               /\ CategoryIsPublished(p.category)
               /\ Date(p.pub_date) < Date(now)}

(* The filter PostDetailView.get_object applies for a non-author. *)
DetailFilter(S) ==
    {p \in S : /\ p.is_published
               /\ p.pub_date <= now
               /\ CategoryIsPublished(p.category)}

(* order_by('-pub_date'): every order of S with pub_date descending. *)
OrderByPubDateDesc(S) ==
    {s \in [1..Cardinality(S) -> S] :
        /\ \A i, j \in 1..Cardinality(S) : i # j => s[i] # s[j]
        /\ \A i, j \in 1..Cardinality(S) : i < j => s[i].pub_date >= s[j].pub_date}

(* Paginator(queryset, paginate_by): the number of pages of n rows (one   *)
(* page when there is no row), and the rows of a page.                     *)
NumPages(n) ==
    ((IF n = 0 THEN 1 ELSE n) + PageSize - 1) \div PageSize

PageIsValid(s, page) == page \in 1..NumPages(Len(s))

PageOf(s, page) ==
    SubSeq(s, (page - 1) * PageSize + 1,
           IF page * PageSize < Len(s) THEN page * PageSize ELSE Len(s))

(* ListView.get: the requested page of the ordered queryset, or 404. *)
ListResponse(template, s, page) ==
    IF PageIsValid(s, page) THEN Render(template, PageOf(s, page))
    ELSE NotFound

(* get_object_or_404(User, username=...) as the set of matching keys. *)
UserByUsername(username) == {u \in Users : users[u].username = username}

(* str(request.user) of an authenticated requester. *)
UsernameOf(u) == users[u].username

(* get_object_or_404(Post, id=...) as the set of matching rows. *)
PostById(id) == {p \in posts : p.id = id}

CommentById(id) == {c \in comments : c.id = id}

(* Variant of PostDetailObject without the author's bypass. *)
PostDetailObjectFiltered(u, id) ==
    {p \in DetailFilter(posts) : p.id = id}

(* PostDetailView.get_object: the author gets the post unfiltered. *)
PostDetailObject(u, id) ==
    IF PostById(id) = {} THEN {}
    ELSE IF \E p \in PostById(id) : p.author = u THEN PostById(id)
    ELSE {p \in DetailFilter(posts) : p.id = id}

----------------------------------------------------------------------------
(* Forms *)

(* Variant of PostFormFields that does not exclude author. *)
PostFormFieldsWithAuthor ==
    {"author", "title", "category", "is_published", "pub_date"}

(* PostForm.Meta: every editable Post field except author. *)
PostFormFields == {"title", "category", "is_published", "pub_date"}

PostFormIsValid(d) == d.title # ""

(* The fields of PostForm whose submitted value validates: these are the   *)
(* fields the form copies onto its instance, also when the form as a whole *)
(* is invalid.                                                             *)
PostFormCleanedFields(d) ==
    {f \in PostFormFields : f = "title" => d.title # ""}

(* EditProfileForm.Meta.fields; the username is required and unique. *)
EditProfileFormFields == {"username", "first_name", "last_name", "email"}

EditProfileFormIsValid(u, d) ==
    /\ d.username # ""
    /\ \A o \in Users \ {u} : users[o].username # d.username

(* CommentForm.Meta.fields *)
CommentFormFields == {"text"}

CommentFormIsValid(d) == d.text # ""

(* ModelForm: the form's fields are copied from the cleaned data onto the  *)
(* instance, every other field of the instance is kept.                    *)
construct_instance(instance, fields, d) ==
    [f \in DOMAIN instance |-> IF f \in fields THEN d[f] ELSE instance[f]]

NewPost ==
    [id |-> nextPostId, author |-> "", title |-> "", category |-> "",
     is_published |-> FALSE, pub_date |-> 0]

(* A fresh Comment instance.  comments is the comment's foreign key to its *)
(* Post, under the name views.py gives it (0: not set).                    *)
NewComment ==
    [id |-> nextCommentId, author |-> "", comments |-> 0, text |-> ""]

----------------------------------------------------------------------------
(* Initial state: an empty blog with one published and one unpublished     *)
(* category.                                                               *)

NewUser(username) ==
    [username |-> username, first_name |-> "", last_name |-> "", email |-> ""]

Init ==
    /\ users = [u \in Users |-> NewUser(u)]
    /\ posts = {}
    /\ comments = {}
    /\ categories = {[slug |-> "c1", is_published |-> TRUE],
                     [slug |-> "c2", is_published |-> FALSE]}
    /\ nextPostId = 1
    /\ nextCommentId = 1
    /\ now = DayLen
    /\ request = Req("none", "GET", Anonymous, 0, 0, "", "", NoData)
    /\ response = Render("", <<>>)

----------------------------------------------------------------------------
(* Read routes *)

IndexListView(u, page) ==
    /\ request' = ListReq("index", u, "", "", page)
    /\ \E s \in OrderByPubDateDesc(get_post(posts)) :
          response' = ListResponse("blog/index.html", s, page)
    /\ UNCHANGED <<data, now>>

PostDetailView(u, id) ==
    /\ request' = Req("post_detail", "GET", u, id, 0, "", "", NoData)
    /\ IF ~is_authenticated(u)
         THEN response' = RedirectToLogin("post_detail")
       ELSE IF PostDetailObject(u, id) = {}
         THEN response' = NotFound
       ELSE \E p \in PostDetailObject(u, id) :
               response' = Render("blog/detail.html", <<p>>)
    /\ UNCHANGED <<data, now>>

CategoryPostsView(u, slug, page) ==
    /\ request' = ListReq("category_posts", u, slug, "", page)
    /\ \E s \in OrderByPubDateDesc(
                    {p \in get_post(posts) : p.category = slug}) :
          IF ~PageIsValid(s, page) \/ ~CategoryIsPublished(slug)
            THEN response' = NotFound
          ELSE response' = ListResponse("blog/category.html", s, page)
    /\ UNCHANGED <<data, now>>

ProfileListView(u, username, page) ==
    /\ request' = ListReq("profile", u, "", username, page)
    /\ IF UserByUsername(username) = {}
         THEN response' = NotFound
       ELSE \E author \in UserByUsername(username) :
            \E s \in OrderByPubDateDesc(
                        {p \in posts : p.author = author}) :
               response' = ListResponse("blog/profile.html", s, page)
    /\ UNCHANGED <<data, now>>

----------------------------------------------------------------------------
(* Profile route *)

ProfileEditView(u, m, d) ==
    /\ request' = Req("edit_profile", m, u, 0, 0, "", "", d)
    /\ IF ~is_authenticated(u)
         THEN /\ response' = RedirectToLogin("edit_profile")
              /\ UNCHANGED data
       ELSE IF m = "GET" \/ ~EditProfileFormIsValid(u, d)
         THEN /\ response' = Render("blog/user.html", <<>>)
              /\ UNCHANGED data
       ELSE /\ users' = [users EXCEPT ![u] =
                   construct_instance(users[u], EditProfileFormFields, d)]
            /\ response' = Redirect("profile", 0, d.username)
            /\ UNCHANGED <<posts, comments, categories, nextPostId,
                           nextCommentId>>
    /\ UNCHANGED now

----------------------------------------------------------------------------
(* Post routes *)

PostCreateView(u, m, d) ==
    /\ request' = Req("create_post", m, u, 0, 0, "", "", d)
    /\ IF ~is_authenticated(u)
         THEN /\ response' = RedirectToLogin("create_post")
              /\ UNCHANGED data
       ELSE IF m = "GET" \/ ~PostFormIsValid(d)
         THEN /\ response' = Render("blog/create.html", <<>>)
              /\ UNCHANGED data
       ELSE /\ nextPostId <= MaxPosts
            /\ posts' = posts \cup
                 {[construct_instance(NewPost, PostFormFields, d)
                     EXCEPT !.author = u]}
            /\ nextPostId' = nextPostId + 1
            /\ response' = Redirect("profile", 0, UsernameOf(u))
            /\ UNCHANGED <<users, comments, categories, nextCommentId>>
    /\ UNCHANGED now

(* Variant of PostEditDenied that tests the login only. *)
PostEditDeniedAnonymous(obj, u) == ~is_authenticated(u)

(* The ownership test of PostEditView.dispatch. *)
PostEditDenied(obj, u) == obj.author # u

PostEditView(u, id, m, d) ==
    /\ request' = Req("edit_post", m, u, id, 0, "", "", d)
    /\ IF PostById(id) = {}
         THEN /\ response' = NotFound
              /\ UNCHANGED data
       ELSE \E obj \in PostById(id) :
         IF PostEditDenied(obj, u)
           THEN /\ response' = Redirect("post_detail", id, "")
                /\ UNCHANGED data
         ELSE IF ~is_authenticated(u)
           THEN /\ response' = RedirectToLogin("edit_post")
                /\ UNCHANGED data
         ELSE IF m = "GET"
           THEN /\ response' = Render("blog/create.html", <<obj>>)
                /\ UNCHANGED data
         ELSE IF ~PostFormIsValid(d)
           THEN /\ response' = Render("blog/create.html",
                     <<construct_instance(obj, PostFormCleanedFields(d), d)>>)
                /\ UNCHANGED data
         ELSE /\ posts' = (posts \ {obj}) \cup
                   {construct_instance(obj, PostFormFields, d)}
              /\ response' = Redirect("post_detail", id, "")
              /\ UNCHANGED <<users, comments, categories, nextPostId,
                             nextCommentId>>
    /\ UNCHANGED now

(* The ownership test of PostDeleteView.dispatch. *)
PostDeleteDenied(obj, u) == obj.author # u

PostDeleteView(u, id, m) ==
    /\ request' = Req("delete_post", m, u, id, 0, "", "", NoData)
    /\ IF PostById(id) = {}
         THEN /\ response' = NotFound
              /\ UNCHANGED data
       ELSE \E obj \in PostById(id) :
         IF PostDeleteDenied(obj, u)
           THEN /\ response' = Redirect("post_detail", id, "")
                /\ UNCHANGED data
         ELSE IF ~is_authenticated(u)
           THEN /\ response' = RedirectToLogin("delete_post")
                /\ UNCHANGED data
         ELSE IF m = "GET"
           THEN /\ response' = Render("blog/create.html", <<obj>>)
                /\ UNCHANGED data
         ELSE /\ posts' = posts \ {obj}
              /\ comments' = {c \in comments : c.comments # id}
              /\ response' = Redirect("index", 0, "")
              /\ UNCHANGED <<users, categories, nextPostId, nextCommentId>>
    /\ UNCHANGED now

----------------------------------------------------------------------------
(* The clock *)

Tick ==
    /\ now < MaxTime
    /\ now' = now + 1
    /\ UNCHANGED <<data, request, response>>

----------------------------------------------------------------------------
(* Comment routes *)

(* Variant of CommentInstance that attaches the comment to the post whose  *)
(* id is the comment's own id.                                             *)
CommentInstanceWrongPost(u, post_id, d) ==
    [construct_instance(NewComment, CommentFormFields, d)
       EXCEPT !.comments = nextCommentId, !.author = u]

(* CreateCommentView.form_valid: the comment is attached to the post of    *)
(* the URL and to the requester.                                           *)
CommentInstance(u, post_id, d) ==
    [construct_instance(NewComment, CommentFormFields, d)
       EXCEPT !.comments = post_id, !.author = u]

CreateCommentView(u, post_id, m, d) ==
    /\ request' = Req("add_comment", m, u, post_id, 0, "", "", d)
    /\ IF PostById(post_id) = {}
         THEN /\ response' = NotFound
              /\ UNCHANGED data
       ELSE IF ~is_authenticated(u)
         THEN /\ response' = RedirectToLogin("add_comment")
              /\ UNCHANGED data
       ELSE IF m = "GET" \/ ~CommentFormIsValid(d)
         THEN /\ response' = Render("blog/comment.html", <<>>)
              /\ UNCHANGED data
       ELSE /\ nextCommentId <= MaxComments
            /\ comments' = comments \cup {CommentInstance(u, post_id, d)}
            /\ nextCommentId' = nextCommentId + 1
            /\ response' = Redirect("post_detail", post_id, "")
            /\ UNCHANGED <<users, posts, categories, nextPostId>>
    /\ UNCHANGED now

(* The ownership test of CommentEditView.dispatch. *)
CommentEditDenied(obj, u) == obj.author # u

CommentEditView(u, post_id, comment_id, m, d) ==
    /\ request' = Req("edit_comment", m, u, post_id, comment_id, "", "", d)
    /\ IF CommentById(comment_id) = {}
         THEN /\ response' = NotFound
              /\ UNCHANGED data
       ELSE \E obj \in CommentById(comment_id) :
         IF CommentEditDenied(obj, u)
           THEN /\ response' = Redirect("post_detail", comment_id, "")
                /\ UNCHANGED data
         ELSE IF m = "GET" \/ ~CommentFormIsValid(d)
           THEN /\ response' = Render("blog/comment.html", <<>>)
                /\ UNCHANGED data
         ELSE /\ comments' = (comments \ {obj}) \cup
                   {construct_instance(obj, CommentFormFields, d)}
              /\ response' = Redirect("post_detail", comment_id, "")
              /\ UNCHANGED <<users, posts, categories, nextPostId,
                             nextCommentId>>
    /\ UNCHANGED now

(* Variant of CommentDeleteDenied that tests the login only. *)
CommentDeleteDeniedAnonymous(obj, u) == ~is_authenticated(u)

(* The ownership test of CommentDeleteView.dispatch. *)
CommentDeleteDenied(obj, u) == obj.author # u

CommentDeleteView(u, post_id, comment_id, m) ==
    /\ request' = Req("delete_comment", m, u, post_id, comment_id, "", "", NoData)
    /\ IF CommentById(comment_id) = {}
         THEN /\ response' = NotFound
              /\ UNCHANGED data
       ELSE \E obj \in CommentById(comment_id) :
         IF CommentDeleteDenied(obj, u)
           THEN /\ response' = Redirect("post_detail", comment_id, "")
                /\ UNCHANGED data
         ELSE IF m = "GET"
           THEN /\ response' = Render("blog/comment.html", <<>>)
                /\ UNCHANGED data
         ELSE /\ comments' = comments \ {obj}
              /\ response' = Redirect("post_detail", comment_id, "")
              /\ UNCHANGED <<users, posts, categories, nextPostId,
                             nextCommentId>>
    /\ UNCHANGED now

----------------------------------------------------------------------------
(* The blog's post and read routes *)

Next ==
    \/ \E u \in Requesters, page \in Pages : IndexListView(u, page)
    \/ \E u \in Requesters, id \in PostIds : PostDetailView(u, id)
    \/ \E u \in Requesters, slug \in Slugs, page \in Pages :
          CategoryPostsView(u, slug, page)
    \/ \E u \in Requesters, username \in Usernames, page \in Pages :
          ProfileListView(u, username, page)
    \/ \E u \in Requesters : ProfileEditView(u, "GET", NoData)
    \/ \E u \in Requesters, d \in ProfileData : ProfileEditView(u, "POST", d)
    \/ \E u \in Requesters : PostCreateView(u, "GET", NoData)
    \/ \E u \in Requesters, d \in PostData : PostCreateView(u, "POST", d)
    \/ \E u \in Requesters, id \in PostIds : PostEditView(u, id, "GET", NoData)
    \/ \E u \in Requesters, id \in PostIds, d \in PostData :
          PostEditView(u, id, "POST", d)
    \/ \E u \in Requesters, id \in PostIds, m \in Methods : PostDeleteView(u, id, m)
    \/ Tick

Spec == Init /\ [][Next]_vars

----------------------------------------------------------------------------
(* The blog's comment routes, on a blog that holds the posts SeedPosts *)

InitComment ==
    /\ users = [u \in Users |-> NewUser(u)]
    /\ posts = SeedPosts
    /\ comments = {}
    /\ categories = {[slug |-> "c1", is_published |-> TRUE],
                     [slug |-> "c2", is_published |-> FALSE]}
    /\ nextPostId = Cardinality(SeedPosts) + 1
    /\ nextCommentId = 1
    /\ now = DayLen
    /\ request = Req("none", "GET", Anonymous, 0, 0, "", "", NoData)
    /\ response = Render("", <<>>)

NextComment ==
    \/ \E u \in Requesters, id \in SeedPostIds \cup {MissingPostId} :
          CreateCommentView(u, id, "GET", NoData)
    \/ \E u \in Requesters, id \in SeedPostIds \cup {MissingPostId},
          d \in CommentData :
          CreateCommentView(u, id, "POST", d)
    \/ \E u \in Requesters, id \in SeedPostIds, cid \in CommentIds :
          CommentEditView(u, id, cid, "GET", NoData)
    \/ \E u \in Requesters, id \in SeedPostIds, cid \in CommentIds,
          d \in CommentData :
          CommentEditView(u, id, cid, "POST", d)
    \/ \E u \in Requesters, id \in SeedPostIds, cid \in CommentIds,
          m \in Methods :
          CommentDeleteView(u, id, cid, m)

SpecComment == InitComment /\ [][NextComment]_vars

----------------------------------------------------------------------------
(* Vocabulary of the properties *)

(* The visibility predicate of the specification. *)
PubliclyVisible(p) ==
    /\ p.is_published
    /\ p.pub_date <= now
    /\ CategoryIsPublished(p.category)

ReadRoutes == {"index", "category_posts", "profile", "post_detail"}

MutatingRoutes ==
    {"edit_profile", "create_post", "edit_post", "delete_post",
     "add_comment", "edit_comment", "delete_comment"}

Objects(r) == {r.objects[i] : i \in DOMAIN r.objects}

----------------------------------------------------------------------------
(* C1: a GET of the detail route of a post that fails the visibility       *)
(* predicate, by anyone who is not its author (anonymous or another        *)
(* authenticated user), is answered NotFound.                              *)
C1_HiddenPostIsNotFound ==
    \A p \in posts :
        ( /\ request.route = "post_detail"
          /\ request.post_id = p.id
          /\ request.user # p.author
          /\ ~PubliclyVisible(p) )
        => response.status = "NotFound"

(* C2: the author fetching the detail route of an own post receives that   *)
(* post, whatever its is_published, pub_date and category flag.            *)
C2_AuthorSeesOwnPost ==
    \A p \in posts :
        ( /\ request.route = "post_detail"
          /\ request.post_id = p.id
          /\ request.user = p.author )
        => response = Render("blog/detail.html", <<p>>)

C2_Witness ==
    \E p \in posts :
        /\ request.route = "post_detail"
        /\ request.post_id = p.id
        /\ request.user = p.author
        /\ ~PubliclyVisible(p)
        /\ response.status = "OK"

(* C3: on every read route (index, category, profile, detail) a post that  *)
(* fails the visibility predicate is returned to nobody but its author.    *)
C3_NoReadRouteLeaks ==
    [][ ( /\ now' = now
          /\ request'.route \in ReadRoutes
          /\ response'.status = "OK" )
        => \A p \in Objects(response') :
              PubliclyVisible(p) \/ p.author = request'.user ]_vars

(* C4: the index listing holds exactly the posts satisfying the visibility *)
(* predicate at request time (the category listing those of its category), *)
(* ordered by pub_date descending (the first page, of a blog whose posts   *)
(* fit on one page).                                                       *)
C4_ListingIsExactlyTheVisiblePosts ==
    [][ ( /\ now' = now
          /\ request'.route \in {"index", "category_posts"}
          /\ request'.page = 1
          /\ Cardinality(posts) <= PageSize
          /\ response'.status = "OK" )
        => /\ Objects(response') =
                {p \in posts : /\ PubliclyVisible(p)
                               /\ request'.route = "category_posts"
                                    => p.category = request'.slug}
           /\ Len(response'.objects) = Cardinality(Objects(response'))
           /\ \A i, j \in DOMAIN response'.objects :
                 i < j => response'.objects[i].pub_date
                            >= response'.objects[j].pub_date ]_vars

(* C5: a GET or POST to the edit or delete route of a post by an           *)
(* authenticated user other than its author is answered with a redirect to *)
(* the post's detail view, and no stored row changes.                      *)
C5_NonOwnerIsRedirected ==
    [][ \A p \in posts :
          ( /\ now' = now
            /\ request'.route \in {"edit_post", "delete_post"}
            /\ request'.post_id = p.id
            /\ is_authenticated(request'.user)
            /\ request'.user # p.author )
          => /\ response' = Redirect("post_detail", p.id, "")
             /\ posts' = posts
             /\ comments' = comments ]_vars

C5_Witness ==
    \E p \in posts :
        /\ request.route = "edit_post"
        /\ request.method = "POST"
        /\ PostFormIsValid(request.data)
        /\ request.post_id = p.id
        /\ is_authenticated(request.user)
        /\ request.user # p.author
        /\ response = Redirect("post_detail", p.id, "")

(* C6: every stored post keeps the author it was created with, and a post  *)
(* is created only with the authenticated requester of the create request  *)
(* as its author, whatever author the form payload names.                  *)
C6_AuthorIsTheCreator ==
    [][ \A p \in posts' :
          \/ \E q \in posts : q.id = p.id /\ q.author = p.author
          \/ /\ \A q \in posts : q.id # p.id
             /\ request'.route = "create_post"
             /\ is_authenticated(request'.user)
             /\ p.author = request'.user ]_vars

C6_Witness ==
    \E p \in posts :
        /\ request.route = "edit_post"
        /\ request.method = "POST"
        /\ request.post_id = p.id
        /\ request.user = p.author
        /\ request.data.author # p.author
        /\ p.pub_date = request.data.pub_date
        /\ p.is_published = request.data.is_published
        /\ p.category = request.data.category
        /\ response = Redirect("post_detail", p.id, "")

(* C7: after a GET or POST to the comment-edit or comment-delete route of  *)
(* a comment by anyone who is not its author (anonymous or another user),  *)
(* the comment still exists with its text, author and post unchanged.      *)
C7_OnlyAuthorChangesComment ==
    [][ \A c \in comments :
          ( /\ request'.route \in {"edit_comment", "delete_comment"}
            /\ request'.comment_id = c.id
            /\ request'.user # c.author )
          => /\ c \in comments'
             /\ comments' = comments ]_vars

C7_Witness ==
    \E c \in comments :
        /\ request.route = "delete_comment"
        /\ request.method = "POST"
        /\ request.comment_id = c.id
        /\ request.user # c.author
        /\ response.status = "Redirect"

(* C8: a request of an unauthenticated requester to a mutating route is    *)
(* redirected to the login page, with the route as the return path, and to *)
(* no other destination.                                                   *)
C8_AnonymousIsSentToLogin ==
    ( /\ request.route \in MutatingRoutes
      /\ request.user = Anonymous
      /\ request.route \in {"edit_post", "delete_post"}
           => PostById(request.post_id) # {} )
    => response = RedirectToLogin(request.route)

(* C9: a POST of valid text to the comment route of an existing post by an *)
(* authenticated user adds exactly one comment, by the requester and on    *)
(* that post, changes no other row and redirects to the post's detail      *)
(* view; for a post id that does not exist the answer is NotFound and no   *)
(* row is added.                                                           *)
C9_CommentIsCreated ==
    [][ ( /\ request'.route = "add_comment"
          /\ request'.method = "POST"
          /\ is_authenticated(request'.user)
          /\ CommentFormIsValid(request'.data) )
        => IF PostById(request'.post_id) # {}
             THEN /\ \E c \in comments' \ comments :
                        /\ comments' = comments \cup {c}
                        /\ \A o \in comments : o.id # c.id
                        /\ c.author = request'.user
                        /\ c.comments = request'.post_id
                        /\ c.text = request'.data.text
                  /\ posts' = posts
                  /\ response' = Redirect("post_detail", request'.post_id, "")
             ELSE /\ response' = NotFound
                  /\ comments' = comments
                  /\ posts' = posts ]_vars

C9_Witness ==
    \E c \in comments, o \in comments :
        /\ o.id # c.id
        /\ request.route = "add_comment"
        /\ request.method = "POST"
        /\ c.id = nextCommentId - 1
        /\ c.author = request.user
        /\ c.comments = request.post_id
        /\ c.comments # c.id
        /\ c.text = request.data.text
        /\ response = Redirect("post_detail", c.comments, "")

(* C10: on the comment-edit and comment-delete routes, the redirect after  *)
(* a successful mutation and the redirect on an ownership failure both     *)
(* lead to the detail page of the post the comment belongs to, the post    *)
(* named by post_id in the URL.                                            *)
C10_CommentRedirectsToItsPost ==
    [][ \A c \in comments :
          ( /\ request'.route \in {"edit_comment", "delete_comment"}
            /\ request'.comment_id = c.id
            /\ request'.post_id = c.comments
            /\ response'.status = "Redirect" )
          => response' = Redirect("post_detail", c.comments, "") ]_vars

====
